---- MODULE Spec2Model ----
(***************************************************************************)
(* WebWaka Agriculture backend.                                            *)
(*                                                                         *)
(* Offline synchronisation scaffolding:                                    *)
(*   backend/app/models/shared.py   TimestampMixin, SoftDeleteMixin,       *)
(*                                  AfricanOptimizationMixin, BaseModel,   *)
(*                                  SyncLog                                *)
(*   backend/app/core/database.py   OfflineDatabase                        *)
(*                                                                         *)
(* A store is a database: the central one ("online") or the SQLite file    *)
(* of one user (offline_data/user_<id>.db).  A store is a table of         *)
(* BaseModel rows, each carrying its primary key id.  The only operations  *)
(* the source has on the sync bookkeeping are BaseModel.mark_for_sync /    *)
(* mark_synced / mark_conflict and OfflineDatabase.sync_to_online /        *)
(* sync_from_online, whose bodies are `pass`.                              *)
(*                                                                         *)
(* Configuration:       backend/app/core/config.py   get_settings,         *)
(*                                                    settings             *)
(* Login bookkeeping:   backend/app/models/user.py   User                  *)
(* Performance test:    tests/unit/backend/test_user_models.py             *)
(*                      TestUserManagementPerformance                      *)
(***************************************************************************)
EXTENDS Integers, Sequences, FiniteSets, TLC

\* Bounds of the model.
MaxClock == 1
MaxCalls == 2
MaxFailed == 6
MaxLogins == 1
MaxSessions == 2
MaxRequests == 3

Users == {"u1", "u2"}
Stores == {"online"} \cup Users
RecordIds == {"r1", "r2"}
Payloads == {"p1", "p2"}
OfflineIds == {"o1"}

VARIABLES
    clock,       \* what datetime.utcnow() returns
    store,       \* store[s]: the rows of database s, each with its id
    sync_logs,   \* the rows of table sync_logs, in insertion order
    sync_calls,  \* sync_calls[u]: the calls of sync_to_online(u) made so far,
                 \* each recorded as the batch (the pending ids) it was given
    resolved,    \* the row <<s, r>> a mark_synced call last found in conflict
    raised,      \* the exception the last call raised, None when it returned
    environ,          \* os.environ["ENVIRONMENT"], None when unset
    settings_cache,   \* the lru_cache of get_settings: None, or the object
    settings,         \* the module-level name `settings` of config.py
    settings_made,    \* how many Settings objects were constructed so far
    settings_calls,   \* what each get_settings() call after import returned
    offline_engine,   \* OfflineDatabase.offline_engine
    offline_session,  \* OfflineDatabase.offline_session
    user,             \* the login bookkeeping columns of one User row
    auth_performance, \* the dict of test_user_authentication_performance
    test_pc,          \* where that test is: the index of the next network
                      \* condition, or how the test ended
    import_environ,       \* what ENVIRONMENT was when config.py was imported
    content_translations, \* MultiLanguageMixin.content_translations of a row
    translated,           \* what the last get_translated_content returned
    calendar,             \* what the last get_crop_calendar returned
    sessions,             \* the sessions get_async_session and
                          \* get_sync_session made, in the order of the calls
    requests,             \* the requests that entered MetricsMiddleware
    ACTIVE_CONNECTIONS,   \* the value of the metric of that name
    REQUEST_COUNT         \* the value of the metric per status_code label

syncVars == <<store, sync_logs, sync_calls, resolved>>

configVars ==
    <<environ, settings_cache, settings, settings_made, settings_calls,
      import_environ>>

offlineVars == <<offline_engine, offline_session>>

userVars == <<user>>

testVars == <<auth_performance, test_pc>>

dataVars == <<content_translations, translated, calendar>>

sessionVars == <<sessions>>

metricsVars == <<requests, ACTIVE_CONNECTIONS, REQUEST_COUNT>>

webVars == <<dataVars, sessionVars, metricsVars>>

vars ==
    <<clock, syncVars, raised, configVars, offlineVars, userVars, testVars,
      webVars>>

\* The values of column sync_status (its comment: synced, pending,
\* conflict).
SyncStatuses == {"synced", "pending", "conflict"}

\* Python's None, and a value that is present (nullable columns).
None == <<>>
Some(v) == <<v>>

utcnow == clock

\* A freshly constructed record: the primary key, and the column defaults.
BaseModel(r, p, oid) ==
    [ id           |-> r,
      payload      |-> p,
      updated_at   |-> utcnow,
      is_deleted   |-> FALSE,
      sync_status  |-> "synced",
      last_sync_at |-> None,
      offline_id   |-> oid ]

Has(s, r) == \E x \in store[s] : x.id = r

Row(s, r) == CHOOSE x \in store[s] : x.id = r

Pending(u, r) == Has(u, r) /\ Row(u, r).sync_status = "pending"

Batch(u) == {r \in RecordIds : Pending(u, r)}

\* mark_for_sync with the status literal of mark_synced pasted in.
mark_for_sync_as_synced(rec) ==
    [rec EXCEPT !.sync_status = "synced", !.updated_at = utcnow]

\* self.sync_status = "pending"; self.updated_at = datetime.utcnow()
mark_for_sync(rec) ==
    [rec EXCEPT !.sync_status = "pending", !.updated_at = utcnow]

\* mark_synced with the status literal of mark_conflict pasted in.
mark_synced_as_conflict(rec) ==
    [rec EXCEPT !.sync_status = "conflict", !.last_sync_at = Some(utcnow)]

\* mark_synced stamping updated_at as mark_for_sync does.
mark_synced_stamping(rec) ==
    [rec EXCEPT !.sync_status = "synced",
                !.last_sync_at = Some(utcnow),
                !.updated_at = utcnow]

\* self.sync_status = "synced"; self.last_sync_at = datetime.utcnow()
mark_synced(rec) ==
    [rec EXCEPT !.sync_status = "synced", !.last_sync_at = Some(utcnow)]

\* mark_conflict writing the participle instead of the noun.
mark_conflict_as_conflicted(rec) ==
    [rec EXCEPT !.sync_status = "conflicted"]

\* self.sync_status = "conflict"
mark_conflict(rec) ==
    [rec EXCEPT !.sync_status = "conflict"]

\* A reconciliation that inserts every pending row of the user it does not
\* find in the central store and flags one it does find as a conflict.
sync_to_online_naive(u, st) ==
    LET pend == {x \in st[u] : x.sync_status = "pending"}
        on   == st["online"]
    IN  [st EXCEPT !["online"] =
            {IF \E y \in pend : y.id = x.id THEN mark_conflict(x) ELSE x :
                x \in on}
            \cup {[y EXCEPT !.sync_status = "synced"] :
                    y \in {z \in pend : \A x \in on : x.id # z.id}}]

\* OfflineDatabase.sync_to_online(user_id): the body is `pass`, so the
\* stores and the sync_logs table after the call are those before it.
sync_to_online(u, st) == st

\* A download that copies into the user's store every central row the
\* user's store does not hold.
sync_from_online_naive(u, st) ==
    [st EXCEPT ![u] =
        @ \cup {x \in st["online"] : \A y \in st[u] : y.id # x.id}]

\* OfflineDatabase.sync_from_online(user_id): the body is `pass`.
sync_from_online(u, st) == st

(***************************************************************************)
(* config.py.  A string whose characters the code looks at is the sequence *)
(* of its characters.                                                      *)
(***************************************************************************)
Uppercase ==
    << "A", "B", "C", "D", "E", "F", "G", "H", "I", "J", "K", "L", "M",
       "N", "O", "P", "Q", "R", "S", "T", "U", "V", "W", "X", "Y", "Z" >>

Lowercase ==
    << "a", "b", "c", "d", "e", "f", "g", "h", "i", "j", "k", "l", "m",
       "n", "o", "p", "q", "r", "s", "t", "u", "v", "w", "x", "y", "z" >>

\* str.lower()
lower(s) ==
    [i \in 1..Len(s) |->
        IF \E k \in DOMAIN Uppercase : Uppercase[k] = s[i]
        THEN Lowercase[CHOOSE k \in DOMAIN Uppercase : Uppercase[k] = s[i]]
        ELSE s[i]]

development == <<"d", "e", "v", "e", "l", "o", "p", "m", "e", "n", "t">>
production == <<"p", "r", "o", "d", "u", "c", "t", "i", "o", "n">>
testing == <<"t", "e", "s", "t", "i", "n", "g">>

\* The values ENVIRONMENT takes in the model: unset, "production",
\* "Production", "testing", "staging".
Environments ==
    { None,
      Some(production),
      Some(<<"P", "r", "o", "d", "u", "c", "t", "i", "o", "n">>),
      Some(testing),
      Some(<<"s", "t", "a", "g", "i", "n", "g">>) }

\* os.getenv("ENVIRONMENT", default)
getenv(env, default) == IF env = None THEN default ELSE env[1]

\* The body of get_settings comparing the variable as it is, without
\* .lower().
Settings_case_sensitive(env, n) ==
    LET environment == getenv(env, development)
    IN  [ cls |-> IF environment = production THEN "ProductionSettings"
                  ELSE IF environment = testing THEN "TestingSettings"
                  ELSE "DevelopmentSettings",
          oid |-> n + 1 ]

\* The body of get_settings: the n+1st Settings object constructed, of the
\* class the environment selects.
Settings(env, n) ==
    LET environment == lower(getenv(env, development))
    IN  [ cls |-> IF environment = production THEN "ProductionSettings"
                  ELSE IF environment = testing THEN "TestingSettings"
                  ELSE "DevelopmentSettings",
          oid |-> n + 1 ]

\* get_settings without its @lru_cache() decorator.
get_settings_uncached(cache, env, n) == Settings(env, n)

\* @lru_cache() def get_settings(): the function takes no argument, so the
\* cache holds at most one entry, and a call that finds it returns it.
get_settings(cache, env, n) ==
    IF cache # None THEN cache[1] ELSE Settings(env, n)

\* DEBUG of a settings object: the class attribute (the DEBUG variable of
\* the environment is unset).
DEBUG(obj) == obj.cls # "ProductionSettings"

(***************************************************************************)
(* user.py: User.update_login_info / increment_failed_login /              *)
(* is_account_locked.  Times are in minutes.                               *)
(***************************************************************************)
LockThreshold == 5
LockMinutes == 30

\* update_login_info without its last line, the reset of the counter.
update_login_info_keeping_count(u) ==
    [u EXCEPT !.last_login = Some(utcnow), !.login_count = @ + 1]

\* self.last_login = datetime.utcnow(); self.login_count += 1;
\* self.failed_login_attempts = 0
update_login_info(u) ==
    [u EXCEPT !.last_login = Some(utcnow),
              !.login_count = @ + 1,
              !.failed_login_attempts = 0]

\* self.failed_login_attempts += 1, and from the fifth failure on the
\* assignment of account_locked_until.  Its right-hand side reads the name
\* timedelta, which user.py neither imports nor defines: the evaluation
\* raises NameError before anything is assigned.  The result is the row and
\* the exception raised.
increment_failed_login(u) ==
    LET counted == [u EXCEPT !.failed_login_attempts = @ + 1]
    IN  IF counted.failed_login_attempts >= LockThreshold
        THEN [self |-> counted, raised |-> Some("NameError")]
        ELSE [self |-> counted, raised |-> None]

\* if self.account_locked_until: return utcnow() < it; return False
is_account_locked(u) ==
    IF u.account_locked_until # None
    THEN utcnow < u.account_locked_until[1]
    ELSE FALSE

(***************************************************************************)
(* tests: TestUserManagementPerformance.test_user_authentication_          *)
(* performance with the fixtures of conftest.py.  Seconds are counted in   *)
(* milliseconds, so that the sums of the test are exact.                   *)
(***************************************************************************)
network_conditions == <<"2G", "3G", "4G">>

\* NETWORK_CONDITIONS[condition]["latency"]
NETWORK_CONDITIONS ==
    "2G" :> [latency |-> <<"5", "0", "0", "m", "s">>]
    @@ "3G" :> [latency |-> <<"2", "0", "0", "m", "s">>]
    @@ "4G" :> [latency |-> <<"5", "0", "m", "s">>]
    @@ "WiFi" :> [latency |-> <<"2", "0", "m", "s">>]

\* performance_benchmarks["api_response_time"], in milliseconds
api_response_time == "2G" :> 2000 @@ "3G" :> 1000 @@ "4G" :> 500

Digits == <<"0", "1", "2", "3", "4", "5", "6", "7", "8", "9">>

\* str.replace("ms", "")
RECURSIVE replace_ms(_)
replace_ms(s) ==
    IF Len(s) = 0 THEN <<>>
    ELSE IF Len(s) >= 2 /\ s[1] = "m" /\ s[2] = "s"
         THEN replace_ms(SubSeq(s, 3, Len(s)))
         ELSE <<s[1]>> \o replace_ms(Tail(s))

\* int() of a non-empty string of decimal digits
RECURSIVE int(_)
int(s) ==
    LET units == (CHOOSE d \in DOMAIN Digits : Digits[d] = s[Len(s)]) - 1
    IN  IF Len(s) = 1 THEN units
        ELSE 10 * int(SubSeq(s, 1, Len(s) - 1)) + units

base_time == 500

\* _simulate_auth_request(network_spec):
\* base_time + int(latency.replace("ms", "")) / 1000, in milliseconds
simulate_auth_request(network_spec) ==
    base_time + int(replace_ms(network_spec.latency))

(***************************************************************************)
(* config.py AFRICAN_COUNTRIES and CROP_CALENDARS; database.py             *)
(* AfricanAgriculturalData.get_crop_calendar.  Of a country the region is  *)
(* kept, of a calendar the crops and the planting and harvest months.      *)
(***************************************************************************)
AFRICAN_COUNTRIES ==
    "NG" :> [region |-> "west-africa"]
    @@ "KE" :> [region |-> "east-africa"]
    @@ "GH" :> [region |-> "west-africa"]
    @@ "ZA" :> [region |-> "southern-africa"]
    @@ "ET" :> [region |-> "east-africa"]
    @@ "SN" :> [region |-> "west-africa"]
    @@ "EG" :> [region |-> "north-africa"]
    @@ "MA" :> [region |-> "north-africa"]

CROP_CALENDARS ==
    "west-africa" :>
        [ main_crops      |-> <<"maize", "rice", "cassava", "yam", "cocoa">>,
          planting_months |-> <<"04", "05", "06">>,
          harvest_months  |-> <<"09", "10", "11", "12">> ]
    @@ "east-africa" :>
        [ main_crops      |-> <<"maize", "beans", "coffee", "tea", "bananas">>,
          planting_months |-> <<"03", "04", "10", "11">>,
          harvest_months  |-> <<"07", "08", "01", "02">> ]
    @@ "southern-africa" :>
        [ main_crops      |-> <<"maize", "wheat", "soybeans", "tobacco">>,
          planting_months |-> <<"10", "11", "12">>,
          harvest_months  |-> <<"03", "04", "05">> ]
    @@ "north-africa" :>
        [ main_crops      |-> <<"wheat", "barley", "olives", "citrus">>,
          planting_months |-> <<"11", "12", "01">>,
          harvest_months  |-> <<"05", "06", "07">> ]
    @@ "central-africa" :>
        [ main_crops      |-> <<"cassava", "plantain", "cocoa", "coffee">>,
          planting_months |-> <<"04", "05", "06">>,
          harvest_months  |-> <<"10", "11", "12">> ]

\* The dict get_crop_calendar builds after its `if`.
general_calendar ==
    [ main_crops      |-> <<"maize", "cassava", "beans">>,
      planting_months |-> <<"04", "05", "06">>,
      harvest_months  |-> <<"09", "10", "11">> ]

\* The country codes and regions get_crop_calendar is called with: the
\* codes of AFRICAN_COUNTRIES and two others.
CountryCodes == DOMAIN AFRICAN_COUNTRIES \cup {"US", ""}

Regions == {"west-africa", "sahel"}

\* The names database.py binds at module level that the function reads:
\* `settings` (its only import from app.core.config), and inside the
\* function CROP_CALENDARS.
database_globals == {"settings", "CROP_CALENDARS"}

\* get_crop_calendar as it would run were AFRICAN_COUNTRIES bound in
\* database.py.
get_crop_calendar_with_import(country_code, region) ==
    LET region_key == IF country_code \in DOMAIN AFRICAN_COUNTRIES
                      THEN Some(AFRICAN_COUNTRIES[country_code].region)
                      ELSE None
    IN  IF region_key # None /\ region_key[1] \in DOMAIN CROP_CALENDARS
        THEN CROP_CALENDARS[region_key[1]]
        ELSE general_calendar

\* get_crop_calendar(country_code, region): after the import of
\* CROP_CALENDARS its first statement reads the global AFRICAN_COUNTRIES,
\* a name database.py does not bind: NameError, whatever the arguments.
\* The result is what the call returned and the exception it raised.
get_crop_calendar(country_code, region) ==
    IF "AFRICAN_COUNTRIES" \in database_globals
    THEN [ returned |->
             Some(get_crop_calendar_with_import(country_code, region)),
           raised   |-> None ]
    ELSE [returned |-> None, raised |-> Some("NameError")]

(***************************************************************************)
(* shared.py MultiLanguageMixin.get_translated_content /                   *)
(* set_translated_content.  Both are decorated with @declared_attr, which  *)
(* makes the name a property of the class: reading the attribute calls the *)
(* function with the class as its only argument.                           *)
(***************************************************************************)
FieldNames == {"name", "description"}
LanguageCodes == {"en", "fr"}
Contents == {"c1", "c2"}

\* declared_attr.__get__: fget(cls).  The function has required parameters
\* after cls (field_name; field_name and content), so the call raises
\* TypeError before the body runs and before the caller's arguments are
\* looked at.  required is the number of those parameters.
declared_attr(required) ==
    IF required > 0 THEN Some("TypeError") ELSE None

\* obj.get_translated_content(field_name, language_code): the returned
\* string and the exception raised.
get_translated_content(translations, field_name, language_code) ==
    IF declared_attr(1) # None
    THEN [returned |-> None, raised |-> declared_attr(1)]
    ELSE [ returned |->
             IF /\ translations # None
                /\ field_name \in DOMAIN translations[1]
             THEN LET t == translations[1][field_name]
                  IN  IF language_code \in DOMAIN t THEN Some(t[language_code])
                      ELSE IF "en" \in DOMAIN t THEN Some(t["en"])
                      ELSE Some("")
             ELSE Some(""),
           raised |-> None ]

\* obj.set_translated_content(field_name, content, language_code): the
\* translations after the call and the exception raised.
set_translated_content(translations, field_name, content, language_code) ==
    IF declared_attr(2) # None
    THEN [translations |-> translations, raised |-> declared_attr(2)]
    ELSE LET all == IF translations = None THEN <<>> ELSE translations[1]
             old == IF field_name \in DOMAIN all THEN all[field_name]
                    ELSE <<>>
         IN  [ translations |->
                 Some((field_name :> ((language_code :> content) @@ old))
                      @@ all),
               raised |-> None ]

(***************************************************************************)
(* database.py get_async_session / get_sync_session.  A session is the     *)
(* generator that made it, how its consumer and its commit ended, the      *)
(* calls of commit, rollback and close made on it, in order, and the       *)
(* exception that left the generator.                                      *)
(***************************************************************************)
\* How the consumer of a yielded session ends: it finishes, or an exception
\* is thrown into the generator at the yield: an Exception, or one that is
\* only a BaseException (GeneratorExit when the generator is closed
\* unfinished, asyncio.CancelledError).
ConsumerOutcomes == {"returns", "Exception", "BaseException"}

\* How a call into the database (execute, commit) ends.
CallOutcomes == {"returns", "Exception"}

\* try / except Exception / finally without the rollback in the handler.
try_block_without_rollback(consumer, commit) ==
    IF consumer = "returns" /\ commit = "returns"
    THEN [log |-> <<"commit", "close">>, propagated |-> None]
    ELSE IF consumer = "returns"
    THEN [log |-> <<"commit", "close">>, propagated |-> Some("Exception")]
    ELSE [log |-> <<"close">>, propagated |-> Some(consumer)]

\* The statements both generators share from the yield on:
\*   try: yield session; commit()
\*   except Exception: rollback(); logger.error(...); raise
\*   finally: close()
try_block(consumer, commit) ==
    IF consumer = "returns" /\ commit = "returns"
    THEN [log |-> <<"commit", "close">>, propagated |-> None]
    ELSE IF consumer = "returns"
    THEN [ log        |-> <<"commit", "rollback", "close">>,
           propagated |-> Some("Exception") ]
    ELSE IF consumer = "Exception"
    THEN [log |-> <<"rollback", "close">>, propagated |-> Some("Exception")]
    ELSE [log |-> <<"close">>, propagated |-> Some(consumer)]

\* get_sync_session from its yield on.
get_sync_session(consumer, commit) == try_block(consumer, commit)

\* get_async_session from its yield on: the try statement is the body of
\* `async with AsyncSessionLocal() as session`, whose exit closes the
\* session once more.
get_async_session(consumer, commit) ==
    LET body == try_block(consumer, commit)
    IN  [body EXCEPT !.log = Append(@, "close")]

\* How often event e is in log.
Count(log, e) == Cardinality({k \in DOMAIN log : log[k] = e})

(***************************************************************************)
(* main.py MetricsMiddleware.dispatch.  A request is where it is (its      *)
(* handler is awaited, or dispatch is over), how its handler ended, and    *)
(* what dispatch handed to its caller.                                     *)
(***************************************************************************)
\* The status codes of the responses handlers return in the model.
ResponseCodes == {200, 404}

\* How the awaited call_next(request) ends: with a response of some status
\* code, or with an exception (an Exception, or asyncio.CancelledError,
\* which is only a BaseException).
HandlerOutcomes ==
    {[returned |-> Some(code), raised |-> None] : code \in ResponseCodes}
    \cup {[returned |-> None, raised |-> Some(e)] :
             e \in {"Exception", "BaseException"}}

\* The methods of prometheus_client.Counter the module could call; dec is
\* a method of Gauge.
Counter == {"inc", "labels"}

\* dispatch from the return of `await call_next(request)` on:
\*   try: REQUEST_COUNT.labels(..., response.status_code).inc(); observe;
\*        return response
\*   except Exception: REQUEST_COUNT.labels(..., 500).inc(); log; raise
\*   finally: ACTIVE_CONNECTIONS.dec()
\* ACTIVE_CONNECTIONS is a Counter, which has no dec: the finally clause
\* raises AttributeError, which replaces the response or the exception on
\* its way to the caller.  The result is what the caller gets and the
\* values of the two metrics.
dispatch(handler, active, count) ==
    LET code == IF handler.raised = None THEN handler.returned[1] ELSE 500
        counted == IF handler.raised = Some("BaseException") THEN count
                   ELSE [count EXCEPT ![code] = @ + 1]
    IN  IF "dec" \in Counter
        THEN [ returned |-> handler.returned,
               raised   |-> handler.raised,
               active   |-> active - 1,
               count    |-> counted ]
        ELSE [ returned |-> None,
               raised   |-> Some("AttributeError"),
               active   |-> active,
               count    |-> counted ]

\* The values of the status_code label of REQUEST_COUNT in the model.
StatusCodes == {200, 404, 500}

\* The state once the modules are imported, ENVIRONMENT being one of E at
\* that time: config.py has run `settings = get_settings()` (SECRET_KEY is
\* set, or the import would have failed), no database holds a row, the
\* User row has its column defaults, the test is about to enter its loop.
InitOver(E) ==
    /\ clock = 0
    /\ store = [s \in Stores |-> {}]
    /\ sync_logs = <<>>
    /\ sync_calls = [u \in Users |-> <<>>]
    /\ resolved = None
    /\ raised = None
    /\ environ \in E
    /\ import_environ = environ
    /\ settings = get_settings(None, environ, 0)
    /\ settings_cache = Some(settings)
    /\ settings_made = 1
    /\ settings_calls = <<>>
    /\ offline_engine = None
    /\ offline_session = None
    /\ user = [ last_login            |-> None,
                login_count           |-> 0,
                failed_login_attempts |-> 0,
                account_locked_until  |-> None ]
    /\ auth_performance = <<>>
    /\ test_pc = network_conditions[1]
    /\ content_translations = None
    /\ translated = None
    /\ calendar = None
    /\ sessions = <<>>
    /\ requests = <<>>
    /\ ACTIVE_CONNECTIONS = 0
    /\ REQUEST_COUNT = [code \in StatusCodes |-> 0]

Init == InitOver({None})

\* Time passes between two reads of the clock.
Tick ==
    /\ clock < MaxClock
    /\ clock' = clock + 1
    /\ UNCHANGED <<syncVars, raised, configVars, offlineVars, userVars>>
    /\ UNCHANGED <<testVars, webVars>>

\* An insert that the primary key does not constrain.
AddRecord_unchecked(s, r, p, oid) ==
    /\ store' = [store EXCEPT ![s] = @ \cup {BaseModel(r, p, oid)}]
    /\ raised' = None
    /\ UNCHANGED <<clock, sync_logs, sync_calls, resolved>>
    /\ UNCHANGED <<configVars, offlineVars, userVars, testVars, webVars>>

\* A row is inserted: the primary key is fresh (the insert of a key the
\* table holds is refused), every other column takes its default.
AddRecord(s, r, p, oid) ==
    /\ ~Has(s, r)
    /\ store' = [store EXCEPT ![s] = @ \cup {BaseModel(r, p, oid)}]
    /\ raised' = None
    /\ UNCHANGED <<clock, sync_logs, sync_calls, resolved>>
    /\ UNCHANGED <<configVars, offlineVars, userVars, testVars, webVars>>

\* A row is updated (a domain column, or the soft-delete columns): the
\* onupdate hook of updated_at stamps it.
UpdateRecord(s, r, p, del) ==
    LET update(rec) == [rec EXCEPT !.payload = p,
                                   !.is_deleted = del,
                                   !.updated_at = utcnow]
    IN  /\ Has(s, r)
        /\ store' = [store EXCEPT ![s] =
                        {IF x.id = r THEN update(x) ELSE x : x \in @}]
        /\ raised' = None
        /\ UNCHANGED <<clock, sync_logs, sync_calls, resolved>>
        /\ UNCHANGED <<configVars, offlineVars, userVars, testVars, webVars>>

MarkForSync(s, r) ==
    /\ Has(s, r)
    /\ store' = [store EXCEPT ![s] =
                    {IF x.id = r THEN mark_for_sync(x) ELSE x : x \in @}]
    /\ raised' = None
    /\ UNCHANGED <<clock, sync_logs, sync_calls, resolved>>
    /\ UNCHANGED <<configVars, offlineVars, userVars, testVars, webVars>>

MarkSynced(s, r) ==
    /\ Has(s, r)
    /\ store' = [store EXCEPT ![s] =
                    {IF x.id = r THEN mark_synced(x) ELSE x : x \in @}]
    /\ resolved' = IF Row(s, r).sync_status = "conflict"
                   THEN Some(<<s, r>>)
                   ELSE resolved
    /\ raised' = None
    /\ UNCHANGED <<clock, sync_logs, sync_calls>>
    /\ UNCHANGED <<configVars, offlineVars, userVars, testVars, webVars>>

MarkConflict(s, r) ==
    /\ Has(s, r)
    /\ store' = [store EXCEPT ![s] =
                    {IF x.id = r THEN mark_conflict(x) ELSE x : x \in @}]
    /\ raised' = None
    /\ UNCHANGED <<clock, sync_logs, sync_calls, resolved>>
    /\ UNCHANGED <<configVars, offlineVars, userVars, testVars, webVars>>

SyncToOnline(u) ==
    /\ Len(sync_calls[u]) < MaxCalls
    /\ sync_calls' = [sync_calls EXCEPT ![u] = Append(@, Batch(u))]
    /\ store' = sync_to_online(u, store)
    /\ raised' = None
    /\ UNCHANGED <<clock, sync_logs, resolved>>
    /\ UNCHANGED <<configVars, offlineVars, userVars, testVars, webVars>>

SyncFromOnline(u) ==
    /\ store' = sync_from_online(u, store)
    /\ raised' = None
    /\ UNCHANGED <<clock, sync_logs, sync_calls, resolved>>
    /\ UNCHANGED <<configVars, offlineVars, userVars, testVars, webVars>>

\* The next-state relation over the rows Slots (pairs <<store, id>>), the
\* users U, and the inputs of an insert or update: payloads P, soft-delete
\* flags D and offline ids O.
NextOver(Slots, U, P, D, O) ==
    \/ Tick
    \/ \E sr \in Slots, p \in P, oid \in O : AddRecord(sr[1], sr[2], p, oid)
    \/ \E sr \in Slots, p \in P, del \in D : UpdateRecord(sr[1], sr[2], p, del)
    \/ \E sr \in Slots : MarkForSync(sr[1], sr[2])
    \/ \E sr \in Slots : MarkSynced(sr[1], sr[2])
    \/ \E sr \in Slots : MarkConflict(sr[1], sr[2])
    \/ \E u \in U : SyncToOnline(u)
    \/ \E u \in U : SyncFromOnline(u)

\* One user, one record, in the central store and in the user's offline
\* store; the payload varies.
Next ==
    NextOver({"online", "u1"} \X {"r1"}, {"u1"}, Payloads, {FALSE}, {None})

Spec == Init /\ [][Next]_vars

\* The same rows; the soft-delete flag and the offline id vary.
NextOffline ==
    NextOver({"online", "u1"} \X {"r1"}, {"u1"},
             {"p1"}, BOOLEAN, {None} \cup {Some(o) : o \in OfflineIds})

SpecOffline == Init /\ [][NextOffline]_vars

\* Two users holding a copy of the same record.
NextDevices ==
    NextOver(Stores \X {"r1"}, Users, {"p1"}, {FALSE}, {None})

SpecDevices == Init /\ [][NextDevices]_vars

\* One user whose offline store holds two records, one of them also in
\* the central store.
NextBatch ==
    NextOver({<<"online", "r1">>, <<"u1", "r1">>, <<"u1", "r2">>}, {"u1"},
             {"p1"}, {FALSE}, {None})

SpecBatch == Init /\ [][NextBatch]_vars

\* The environment of the process changes.
SetEnv(e) ==
    /\ environ' = e
    /\ raised' = None
    /\ UNCHANGED <<settings_cache, settings, settings_made, settings_calls>>
    /\ UNCHANGED <<import_environ, webVars>>
    /\ UNCHANGED <<clock, syncVars, offlineVars, userVars, testVars>>

\* A call of get_settings().
GetSettings ==
    LET obj == get_settings(settings_cache, environ, settings_made)
    IN  /\ Len(settings_calls) < MaxCalls
        /\ settings_calls' = Append(settings_calls, obj)
        /\ settings_cache' = Some(obj)
        /\ settings_made' = IF obj.oid > settings_made THEN obj.oid
                            ELSE settings_made
        /\ raised' = None
        /\ UNCHANGED <<environ, settings, import_environ, webVars>>
        /\ UNCHANGED <<clock, syncVars, offlineVars, userVars, testVars>>

\* OfflineDatabase.setup_offline_db(user_id): the engine of the user's
\* SQLite file, echoing as settings.DEBUG says, and a session factory bound
\* to it.
SetupOfflineDb(u) ==
    LET engine == [url |-> u, echo |-> DEBUG(settings)]
    IN  /\ offline_engine' = Some(engine)
        /\ offline_session' = Some([bind |-> engine])
        /\ raised' = None
        /\ UNCHANGED <<clock, syncVars, configVars, userVars, testVars>>
        /\ UNCHANGED webVars

NextConfig ==
    \/ \E e \in Environments : SetEnv(e)
    \/ GetSettings
    \/ \E u \in Users : SetupOfflineDb(u)

SpecConfig == InitOver(Environments) /\ [][NextConfig]_vars

\* One user's offline database is set up, its rows and those of the
\* central store are written and marked, and it is synchronised.
NextOfflineDb ==
    \/ NextOver({"online", "u1"} \X {"r1"}, {"u1"}, {"p1"}, {FALSE}, {None})
    \/ SetupOfflineDb("u1")

SpecOfflineDb == Init /\ [][NextOfflineDb]_vars

\* A successful login.
UpdateLoginInfo ==
    /\ user.login_count < MaxLogins
    /\ user' = update_login_info(user)
    /\ raised' = None
    /\ UNCHANGED <<clock, syncVars, configVars, offlineVars, testVars>>
    /\ UNCHANGED webVars

\* A failed login.
IncrementFailedLogin ==
    LET call == increment_failed_login(user)
    IN  /\ user.failed_login_attempts < MaxFailed
        /\ user' = call.self
        /\ raised' = call.raised
        /\ UNCHANGED <<clock, syncVars, configVars, offlineVars, testVars>>
        /\ UNCHANGED webVars

\* One turn of the loop of test_user_authentication_performance: the
\* request is simulated, its time is stored, and the time is asserted to be
\* within the benchmark; after the last turn, the order of the three times
\* is asserted.
AuthenticationPerformanceTest ==
    LET condition == test_pc
        i == CHOOSE k \in DOMAIN network_conditions :
                 network_conditions[k] = condition
        network_spec == NETWORK_CONDITIONS[condition]
        expected_time == api_response_time[condition]
        auth_time == simulate_auth_request(network_spec)
        measured == (condition :> auth_time) @@ auth_performance
        ends == IF ~(auth_time <= expected_time) THEN "failed"
                ELSE IF i < Len(network_conditions)
                     THEN network_conditions[i + 1]
                ELSE IF /\ measured["4G"] < measured["3G"]
                        /\ measured["3G"] < measured["2G"]
                     THEN "passed"
                ELSE "failed"
    IN  /\ \E k \in DOMAIN network_conditions : network_conditions[k] = test_pc
        /\ auth_performance' = measured
        /\ test_pc' = ends
        /\ raised' = IF ends = "failed" THEN Some("AssertionError") ELSE None
        /\ UNCHANGED <<clock, syncVars, configVars, offlineVars, userVars>>
        /\ UNCHANGED webVars

NextUser ==
    \/ Tick
    \/ UpdateLoginInfo
    \/ IncrementFailedLogin
    \/ AuthenticationPerformanceTest

SpecUser == Init /\ [][NextUser]_vars

\* A call of AfricanAgriculturalData.get_crop_calendar.
GetCropCalendar(country_code, region) ==
    LET call == get_crop_calendar(country_code, region)
    IN  /\ calendar' = call.returned
        /\ raised' = call.raised
        /\ UNCHANGED <<content_translations, translated>>
        /\ UNCHANGED <<sessionVars, metricsVars>>
        /\ UNCHANGED <<clock, syncVars, configVars, offlineVars, userVars>>
        /\ UNCHANGED testVars

\* A call of get_translated_content on a row.
GetTranslatedContent(field_name, language_code) ==
    LET call == get_translated_content(content_translations,
                                       field_name, language_code)
    IN  /\ translated' = call.returned
        /\ raised' = call.raised
        /\ UNCHANGED <<content_translations, calendar>>
        /\ UNCHANGED <<sessionVars, metricsVars>>
        /\ UNCHANGED <<clock, syncVars, configVars, offlineVars, userVars>>
        /\ UNCHANGED testVars

\* A call of set_translated_content on a row.
SetTranslatedContent(field_name, content, language_code) ==
    LET call == set_translated_content(content_translations,
                                       field_name, content, language_code)
    IN  /\ content_translations' = call.translations
        /\ raised' = call.raised
        /\ UNCHANGED <<translated, calendar>>
        /\ UNCHANGED <<sessionVars, metricsVars>>
        /\ UNCHANGED <<clock, syncVars, configVars, offlineVars, userVars>>
        /\ UNCHANGED testVars

NextData ==
    \/ \E country_code \in CountryCodes, region \in Regions :
          GetCropCalendar(country_code, region)
    \/ \E field_name \in FieldNames, language_code \in LanguageCodes :
          GetTranslatedContent(field_name, language_code)
    \/ \E field_name \in FieldNames, content \in Contents,
          language_code \in LanguageCodes :
          SetTranslatedContent(field_name, content, language_code)

\* get_sync_session up to its yield: SessionLocal() makes the session and
\* the generator hands it out.
GetSyncSession ==
    /\ Len(sessions) < MaxSessions
    /\ sessions' = Append(sessions,
                          [ kind       |-> "sync",
                            pc         |-> "yield",
                            consumer   |-> "pending",
                            commit     |-> "not called",
                            log        |-> <<>>,
                            propagated |-> None ])
    /\ UNCHANGED <<dataVars, metricsVars, raised>>
    /\ UNCHANGED <<clock, syncVars, configVars, offlineVars, userVars>>
    /\ UNCHANGED testVars

\* get_async_session up to its yield: the two SET statements are executed
\* inside the try statement; when one raises (a database error, or
\* ArgumentError, which SQLAlchemy 2 raises for a statement given as a
\* plain string) the session is rolled back and closed, the exception
\* leaves the generator through `async with`, which closes the session
\* again, and no session is handed out.
GetAsyncSession(execute) ==
    /\ Len(sessions) < MaxSessions
    /\ sessions' = Append(sessions,
          IF execute = "returns"
          THEN [ kind       |-> "async",
                 pc         |-> "yield",
                 consumer   |-> "pending",
                 commit     |-> "not called",
                 log        |-> <<>>,
                 propagated |-> None ]
          ELSE [ kind       |-> "async",
                 pc         |-> "done",
                 consumer   |-> "not called",
                 commit     |-> "not called",
                 log        |-> <<"rollback", "close", "close">>,
                 propagated |-> Some(execute) ])
    /\ UNCHANGED <<dataVars, metricsVars, raised>>
    /\ UNCHANGED <<clock, syncVars, configVars, offlineVars, userVars>>
    /\ UNCHANGED testVars

\* The generator of session i is resumed at its yield: its consumer has
\* finished or an exception is thrown in, and the generator runs to its
\* end.
ResumeSession(i, consumer, commit) ==
    /\ i \in DOMAIN sessions
    /\ sessions[i].pc = "yield"
    /\ LET run == IF sessions[i].kind = "sync"
                  THEN get_sync_session(consumer, commit)
                  ELSE get_async_session(consumer, commit)
       IN  sessions' =
             [sessions EXCEPT
                ![i] = [ kind       |-> @.kind,
                         pc         |-> "done",
                         consumer   |-> consumer,
                         commit     |-> IF consumer = "returns"
                                        THEN commit ELSE "not called",
                         log        |-> run.log,
                         propagated |-> run.propagated ]]
    /\ UNCHANGED <<dataVars, metricsVars, raised>>
    /\ UNCHANGED <<clock, syncVars, configVars, offlineVars, userVars>>
    /\ UNCHANGED testVars

NextSession ==
    \/ GetSyncSession
    \/ \E execute \in CallOutcomes : GetAsyncSession(execute)
    \/ \E i \in 1..MaxSessions, consumer \in ConsumerOutcomes,
          commit \in CallOutcomes : ResumeSession(i, consumer, commit)

SpecSession == Init /\ [][NextSession]_vars

\* MetricsMiddleware.dispatch up to `await call_next(request)`.
DispatchEnter ==
    /\ Len(requests) < MaxRequests
    /\ ACTIVE_CONNECTIONS' = ACTIVE_CONNECTIONS + 1
    /\ requests' = Append(requests,
                          [ pc       |-> "call_next",
                            handler  |-> None,
                            returned |-> None,
                            raised   |-> None ])
    /\ UNCHANGED <<REQUEST_COUNT, dataVars, sessionVars, raised>>
    /\ UNCHANGED <<clock, syncVars, configVars, offlineVars, userVars>>
    /\ UNCHANGED testVars

\* MetricsMiddleware.dispatch of request i from the end of its handler on.
DispatchLeave(i, handler) ==
    /\ i \in DOMAIN requests
    /\ requests[i].pc = "call_next"
    /\ LET call == dispatch(handler, ACTIVE_CONNECTIONS, REQUEST_COUNT)
       IN  /\ ACTIVE_CONNECTIONS' = call.active
           /\ REQUEST_COUNT' = call.count
           /\ requests' = [requests EXCEPT
                             ![i] = [ pc       |-> "done",
                                      handler  |-> Some(handler),
                                      returned |-> call.returned,
                                      raised   |-> call.raised ]]
    /\ UNCHANGED <<dataVars, sessionVars, raised>>
    /\ UNCHANGED <<clock, syncVars, configVars, offlineVars, userVars>>
    /\ UNCHANGED testVars

NextWeb ==
    \/ DispatchEnter
    \/ \E i \in 1..MaxRequests, handler \in HandlerOutcomes :
          DispatchLeave(i, handler)
    \/ NextData

SpecWeb == Init /\ [][NextWeb]_vars

(***************************************************************************)
(* How the reconciler's terms read in the columns the source has.  The     *)
(* batch a user submits with sync_to_online(u) is the set of pending rows  *)
(* of that user's offline store; an operation is a create when the row     *)
(* carries an offline id, an update or a delete when the central store     *)
(* holds a row of that id (a delete when the offline row carries the       *)
(* soft-delete flag).  The version the client last saw is the row's        *)
(* last_sync_at.                                                           *)
(***************************************************************************)
Submits(u) == Len(sync_calls'[u]) = Len(sync_calls[u]) + 1

\* u submits r, which an earlier submission of u already contained.
Resubmits(u, r) ==
    /\ Submits(u)
    /\ Pending(u, r)
    /\ \E i \in 1..Len(sync_calls[u]) : r \in sync_calls[u][i]

base_version(rec) == rec.last_sync_at

\* u submits an update (or delete) of a row the central store holds.
SubmitsUpdate(u, r) ==
    /\ Submits(u)
    /\ Pending(u, r)
    /\ Has("online", r)

\* The client last saw exactly the stored version / an older one.
Matches(u, r) == base_version(Row(u, r)) = Some(Row("online", r).updated_at)

Stale(u, r) ==
    /\ base_version(Row(u, r)) # None
    /\ base_version(Row(u, r))[1] < Row("online", r).updated_at

\* The call appended one SyncLog, of user u; its outcome for record r.
NewLog == sync_logs'[Len(sync_logs')]

Logged(u) ==
    /\ Len(sync_logs') = Len(sync_logs) + 1
    /\ NewLog.user_id = u

Outcome(r) == NewLog.sync_details[r]

\* The columns a reconciliation decides: payload, version, status, marker.
SyncColumns(rec) ==
    [ payload     |-> rec.payload,
      updated_at  |-> rec.updated_at,
      sync_status |-> rec.sync_status,
      is_deleted  |-> rec.is_deleted ]

\* C1 (as stated): a create (a pending row with an offline id) submitted a
\* second time yields exactly one stored Record of that offline id, and the
\* second submission is reported duplicate_ignored with records_affected
\* not increased.
C1_IdempotentCreate ==
    [][\A u \in Users, r \in RecordIds :
          (Resubmits(u, r) /\ Row(u, r).offline_id # None)
          => /\ Cardinality({x \in store'["online"] :
                   x.offline_id = Row(u, r).offline_id}) = 1
             /\ Logged(u)
             /\ Outcome(r) = "duplicate_ignored"
             /\ NewLog.records_affected = 0]_vars

\* C2 (as stated): of two updates of the same record carrying the same base
\* version, submitted by two users in either order, exactly one is applied
\* and the other is a conflict (manual) or an audited loser
\* (last-writer-wins).  The step is the later submission; the earlier
\* one is still as it was submitted.
C2_ExactlyOneApplied ==
    [][\A a \in Users, b \in Users, r \in RecordIds :
          ( /\ a # b
            /\ SubmitsUpdate(b, r)
            /\ Pending(a, r)
            /\ \E i \in 1..Len(sync_calls[a]) : r \in sync_calls[a][i]
            /\ base_version(Row(a, r)) # None
            /\ base_version(Row(a, r)) = base_version(Row(b, r)) )
          => \E w \in {a, b} : \E l \in {a, b} \ {w} :
                /\ Row(w, r)'.sync_status = "synced"
                /\ Row("online", r)'.payload = Row(w, r).payload
                /\ Row(l, r)'.sync_status # "synced"
                /\ \/ Row(l, r)'.sync_status = "conflict"
                   \/ \E i \in 1..Len(sync_logs') :
                         /\ sync_logs'[i].user_id = l
                         /\ sync_logs'[i].sync_details[r] = "conflict"]_vars

\* C3 (as stated): an update whose base version is older than the stored
\* version is ignored with outcome stale_ignored, the stored row staying as
\* it is.
C3_StaleIgnored ==
    [][\A u \in Users, r \in RecordIds :
          (SubmitsUpdate(u, r) /\ Stale(u, r))
          => /\ Has("online", r)'
             /\ SyncColumns(Row("online", r)') = SyncColumns(Row("online", r))
             /\ Logged(u)
             /\ Outcome(r) = "stale_ignored"]_vars

\* C4 (as stated): a batch in which one operation references a record the
\* central store does not hold, and another one applies, is logged with
\* status partial, the absent one as an error, and records_affected the
\* number of operations applied.
C4_PartialFailure ==
    [][\A u \in Users, ok \in RecordIds, missing \in RecordIds :
          ( /\ SubmitsUpdate(u, ok)
            /\ Matches(u, ok)
            /\ Pending(u, missing)
            /\ Row(u, missing).offline_id = None
            /\ ~Has("online", missing) )
          => /\ Logged(u)
             /\ NewLog.status = "partial"
             /\ Outcome(missing) = "error"
             /\ Outcome(ok) = "applied"
             /\ NewLog.records_affected =
                   Cardinality({x \in Batch(u) : Outcome(x) = "applied"})]_vars

\* C5 (as stated): a record in conflict is, after the resolution, synced, and
\* a second resolution of the now-synced record is rejected and changes
\* nothing.  The source has no resolve_conflict; mark_synced is the one
\* operation that takes a record from conflict to synced.
C5_SecondResolveRejected ==
    [][\A s \in Stores, r \in RecordIds :
          ( /\ Has(s, r)
            /\ resolved = Some(<<s, r>>)
            /\ Row(s, r).sync_status = "synced"
            /\ MarkSynced(s, r) )
          => store' = store]_vars

C7_RetrySafe ==
    [][\A u \in Users :
          (\E r \in RecordIds : Resubmits(u, r))
          => /\ \A s \in Stores :
                   {x.id : x \in store'[s]} = {x.id : x \in store[s]}
             /\ \A s \in Stores : \A x \in store[s] :
                   SyncColumns(Row(s, x.id)') = SyncColumns(x)
             /\ sync_logs' = sync_logs]_vars

\* C7 witness: a non-empty batch was submitted twice while its record
\* exists in the central store.
C7_Witness ==
    /\ Len(sync_calls["u1"]) >= 2
    /\ \A i \in 1..2 : "r1" \in sync_calls["u1"][i]
    /\ Pending("u1", "r1")
    /\ Has("online", "r1")

\* C8 (as stated, manual policy): an update whose base version is older than
\* the stored version is not applied: payload and updated_at of the stored
\* row are unchanged, the record becomes conflict, conflicts_count goes up
\* by one, and the incoming payload is held.
C8_ManualConflictHeld ==
    [][\A u \in Users, r \in RecordIds :
          (SubmitsUpdate(u, r) /\ Stale(u, r))
          => /\ Has("online", r)'
             /\ Row("online", r)'.payload = Row("online", r).payload
             /\ Row("online", r)'.updated_at = Row("online", r).updated_at
             /\ Row("online", r)'.sync_status = "conflict"
             /\ Has(u, r)' /\ Row(u, r)'.payload = Row(u, r).payload
             /\ Logged(u)
             /\ NewLog.conflicts_count = 1]_vars

\* C9 (as stated, last_writer_wins policy): a conflicting update ends with
\* the record synced and holding the payload of the later timestamp, and a
\* conflict entry is in sync_details.
C9_LastWriterWins ==
    [][\A u \in Users, r \in RecordIds :
          (SubmitsUpdate(u, r) /\ Stale(u, r))
          => /\ Has("online", r)'
             /\ Row("online", r)'.sync_status = "synced"
             /\ Row("online", r)'.payload =
                   IF Row(u, r).updated_at > Row("online", r).updated_at
                   THEN Row(u, r).payload
                   ELSE Row("online", r).payload
             /\ Logged(u)
             /\ Outcome(r) = "conflict"
             /\ NewLog.conflicts_count = 1]_vars

\* C10 (as stated): a delete whose base version matches sets the deletion
\* marker of the stored row without removing it, and no reconciliation
\* clears a marker that is set.
C10_SoftDelete ==
    [][\A u \in Users, r \in RecordIds :
          /\ (SubmitsUpdate(u, r) /\ Row(u, r).is_deleted /\ Matches(u, r))
             => (Has("online", r)' /\ Row("online", r)'.is_deleted)
          /\ (Submits(u) /\ Has("online", r) /\ Row("online", r).is_deleted)
             => (Has("online", r)' /\ Row("online", r)'.is_deleted)]_vars


\* C11 (as stated): every reconciliation of a batch appends exactly one
\* SyncLog, and a SyncLog already written is not changed afterwards except
\* in its error_info.
C11_OneLogPerBatch ==
    [][/\ \A u \in Users : Submits(u) => Logged(u)
       /\ Len(sync_logs') >= Len(sync_logs)
       /\ \A i \in 1..Len(sync_logs) :
             [sync_logs'[i] EXCEPT !.error_info = None]
                = [sync_logs[i] EXCEPT !.error_info = None]]_vars

\* A batch that is structurally invalid, in the columns the source has: it
\* holds no operation, or it holds an update of a stored row without the
\* version the client last saw.
Malformed(u) ==
    \/ Batch(u) = {}
    \/ \E r \in Batch(u) :
          Has("online", r) /\ base_version(Row(u, r)) = None

\* C12 (as stated): the submission of a structurally invalid batch is
\* rejected with MalformedBatchError, and changes no record and no
\* sync_status.
C12_MalformedBatchRejected ==
    [][\A u \in Users :
          (Submits(u) /\ Malformed(u))
          => /\ raised' = Some("MalformedBatchError")
             /\ store' = store
             /\ sync_logs' = sync_logs]_vars

\* C13: in every reachable state the sync_status of every record is one of
\* synced, pending, conflict, and a record that was just created is synced.
C13_SyncStatusEnum ==
    /\ [](\A s \in Stores : \A x \in store[s] : x.sync_status \in SyncStatuses)
    /\ [][\A s \in Stores, r \in RecordIds :
             (~Has(s, r) /\ Has(s, r)')
             => Row(s, r)'.sync_status = "synced"]_vars

\* C13 witness: mark_conflict, mark_for_sync and mark_synced have each
\* written their status: one record is in conflict, another is pending
\* after having been synced.
C13_Witness ==
    /\ Has("online", "r1") /\ Row("online", "r1").sync_status = "conflict"
    /\ Has("u1", "r1") /\ Row("u1", "r1").sync_status = "pending"
    /\ Row("u1", "r1").last_sync_at # None

C15_OneRecordPerId ==
    \A s \in Stores : \A x \in store[s], y \in store[s] :
        x.id = y.id => x = y

\* C15 witness: a record was created in the central store and in a user's
\* store, soft-deleted there, and submitted twice.
C15_Witness ==
    /\ Has("online", "r1")
    /\ Has("u1", "r1")
    /\ Row("u1", "r1").is_deleted
    /\ Len(sync_calls["u1"]) >= 2
    /\ \A i \in 1..2 : "r1" \in sync_calls["u1"][i]

C17_Memoized ==
    /\ settings_cache = Some(settings)
    /\ \A i \in 1..Len(settings_calls) : settings_calls[i] = settings

\* C17 witness: get_settings was called twice while ENVIRONMENT selects
\* another class than the one of settings.
C17_Witness ==
    /\ Len(settings_calls) >= 2
    /\ Settings(environ, 0).cls # settings.cls

\* C18: a call of sync_to_online or sync_from_online changes no record,
\* creates no SyncLog and leaves offline_engine and offline_session as they
\* were.
C18_SyncIsEmpty ==
    [][\A u \in Users :
          (Submits(u) \/ SyncFromOnline(u))
          => /\ store' = store
             /\ sync_logs' = sync_logs
             /\ offline_engine' = offline_engine
             /\ offline_session' = offline_session]_vars

\* C18 witness: the user's offline database is set up, the central store
\* holds a record, and the user submitted a pending copy of it.
C18_Witness ==
    /\ offline_engine # None
    /\ offline_session # None
    /\ Has("online", "r1")
    /\ Pending("u1", "r1")
    /\ Len(sync_calls["u1"]) >= 1
    /\ "r1" \in sync_calls["u1"][Len(sync_calls["u1"])]

\* C19 (as stated): the simulated authentication time of every network
\* condition the test has measured is at most the api_response_time
\* benchmark of that condition.
C19_AuthWithinBenchmark ==
    \A condition \in DOMAIN auth_performance :
        auth_performance[condition] <= api_response_time[condition]

\* C20 (as stated): the fifth consecutive increment_failed_login completes
\* and sets account_locked_until to 30 minutes after the call, so that the
\* account is locked from then on; and an account is not locked once its
\* account_locked_until has passed.
C20_FifthFailureLocks ==
    /\ [][( /\ user.failed_login_attempts = LockThreshold - 1
            /\ user'.failed_login_attempts = LockThreshold )
          => /\ raised' = None
             /\ user'.account_locked_until = Some(utcnow + LockMinutes)
             /\ is_account_locked(user')]_vars
    /\ [](( /\ user.account_locked_until # None
            /\ utcnow >= user.account_locked_until[1] )
          => ~is_account_locked(user))

\* C21: update_login_info resets failed_login_attempts to 0 and raises
\* login_count by exactly 1, and account_locked_until is set only by a step
\* that leaves at least five failures counted since the last successful
\* login.
C21_ConsecutiveFailures ==
    [][/\ UpdateLoginInfo
          => /\ user'.failed_login_attempts = 0
             /\ user'.login_count = user.login_count + 1
       /\ user'.account_locked_until # user.account_locked_until
          => user'.failed_login_attempts >= LockThreshold]_vars

\* C21 witness: a successful login was followed by four failures, and the
\* account is not locked.
C21_Witness ==
    /\ user.login_count >= 1
    /\ user.last_login # None
    /\ user.failed_login_attempts = LockThreshold - 1
    /\ user.account_locked_until = None
    /\ ~is_account_locked(user)

\* Two strings are equal when the case of their letters is ignored.
SameIgnoringCase(a, b) ==
    /\ Len(a) = Len(b)
    /\ \A i \in 1..Len(a) :
          \/ a[i] = b[i]
          \/ \E k \in DOMAIN Uppercase :
                {a[i], b[i]} = {Uppercase[k], Lowercase[k]}

\* ENVIRONMENT was set when config.py was imported, and was name up to the
\* case of its letters.
ImportedAs(name) ==
    import_environ # None /\ SameIgnoringCase(import_environ[1], name)

\* C24: the settings object get_settings constructed is a
\* ProductionSettings exactly when ENVIRONMENT was 'production' up to case,
\* a TestingSettings exactly when it was 'testing' up to case, and a
\* DevelopmentSettings for every other value and when it was unset.
C24_ClassByEnvironment ==
    /\ settings.cls = "ProductionSettings" <=> ImportedAs(production)
    /\ settings.cls = "TestingSettings" <=> ImportedAs(testing)
    /\ settings.cls = "DevelopmentSettings"
          <=> ~ImportedAs(production) /\ ~ImportedAs(testing)

\* C24 witness: ENVIRONMENT was "Production", with a capital, and
\* get_settings returned a ProductionSettings.
C24_Witness ==
    /\ import_environ # None
    /\ import_environ[1] # production
    /\ settings.cls = "ProductionSettings"
    /\ Len(settings_calls) >= 1
    /\ settings_calls[1].cls = "ProductionSettings"

\* C23 (as stated): every call of get_crop_calendar returns a calendar and
\* raises nothing: the CROP_CALENDARS entry of the country's region when
\* the country code is listed in AFRICAN_COUNTRIES, the general calendar
\* for every other country code.
C23_CalendarForEveryInput ==
    [][\A country_code \in CountryCodes, region \in Regions :
         GetCropCalendar(country_code, region)
         => /\ raised' = None
            /\ calendar' =
                 Some(IF country_code \in DOMAIN AFRICAN_COUNTRIES
                      THEN CROP_CALENDARS[
                               AFRICAN_COUNTRIES[country_code].region]
                      ELSE general_calendar)]_vars

\* The content stored for (field_name, language_code), if any.
Stored(translations, field_name, language_code) ==
    IF /\ translations # None
       /\ field_name \in DOMAIN translations[1]
       /\ language_code \in DOMAIN translations[1][field_name]
    THEN Some(translations[1][field_name][language_code])
    ELSE None

\* C25 (as stated): set_translated_content(field, content, lang) completes
\* and stores content for (field, lang), leaving the translation of every
\* other pair as it was; get_translated_content(field, lang) completes and
\* returns the stored content, else the English content of the field, else
\* the empty string.
C25_TranslationRoundTrip ==
    /\ [][\A field_name \in FieldNames, content \in Contents,
             language_code \in LanguageCodes :
             SetTranslatedContent(field_name, content, language_code)
             => /\ raised' = None
                /\ Stored(content_translations', field_name, language_code)
                     = Some(content)
                /\ \A f \in FieldNames, l \in LanguageCodes :
                     <<f, l>> # <<field_name, language_code>>
                     => Stored(content_translations', f, l)
                          = Stored(content_translations, f, l)]_vars
    /\ [][\A field_name \in FieldNames, language_code \in LanguageCodes :
             GetTranslatedContent(field_name, language_code)
             => /\ raised' = None
                /\ translated' =
                     IF Stored(content_translations, field_name,
                               language_code) # None
                     THEN Stored(content_translations, field_name,
                                 language_code)
                     ELSE IF Stored(content_translations, field_name, "en")
                               # None
                     THEN Stored(content_translations, field_name, "en")
                     ELSE Some("")]_vars

\* The sessions that were handed out and whose generator has ended.
Handed == {i \in DOMAIN sessions : /\ sessions[i].pc = "done"
                                   /\ sessions[i].consumer # "not called"}

InFlight == {i \in DOMAIN requests : requests[i].pc = "call_next"}

\* C27 (as stated): in every state ACTIVE_CONNECTIONS is the number of
\* requests in flight (its initial value being 0), whatever the order in
\* which requests entered and left.
C27_ActiveConnectionsInFlight ==
    ACTIVE_CONNECTIONS = Cardinality(InFlight)

\* C28 (as stated): a request that leaves the middleware has incremented
\* REQUEST_COUNT exactly once, under the status code of the response when
\* the handler returned and under 500 when it raised, and in that case the
\* caller gets the handler's exception.
C28_CountedOnce ==
    [][\A i \in DOMAIN requests, handler \in HandlerOutcomes :
         DispatchLeave(i, handler)
         => LET code == IF handler.raised = None THEN handler.returned[1]
                        ELSE 500
            IN  /\ REQUEST_COUNT' = [REQUEST_COUNT EXCEPT ![code] = @ + 1]
                /\ handler.raised # None
                   => requests'[i].raised = handler.raised]_vars

====
